---- MODULE Spec2Model ----
(***************************************************************************)
(* McLeod Pitch Method (src/python/mpm.py) as a state machine.             *)
(*                                                                         *)
(* numpy arrays are functions over 0..n-1 (the source's indices), Python   *)
(* lists are sequences (peaks[0] of the source is peaks[1] here).          *)
(*                                                                         *)
(* Floating-point values are modelled by the real numbers they stand for,  *)
(* computed exactly: a number is a quotient n/d of two polynomials in the  *)
(* symbol eps = 1e-10 with integer coefficients (<<c0, c1, ...>> is        *)
(* c0 + c1*eps + ...).  For coefficients below 2^31 the sign of such a     *)
(* polynomial at eps = 1e-10 is the sign of its first nonzero coefficient, *)
(* so comparisons are exact.  Rounding error of the floating-point         *)
(* operations (the FFT's included) is not modelled.                        *)
(***************************************************************************)
EXTENDS Integers, Sequences, FiniteSets, TLC

(***************************************************************************)
(* Exact arithmetic                                                        *)
(***************************************************************************)
Abs(a) == IF a < 0 THEN -a ELSE a

Sgn(a) == IF a < 0 THEN -1 ELSE IF a > 0 THEN 1 ELSE 0

Max2(a, b) == IF a >= b THEN a ELSE b

Min2(a, b) == IF a <= b THEN a ELSE b

RECURSIVE GCD(_, _)
GCD(a, b) == IF b = 0 THEN Abs(a) ELSE GCD(b, a % Abs(b))

Coef(p, k) == IF k \in 1..Len(p) THEN p[k] ELSE 0

RECURSIVE PTrim(_)
PTrim(p) == IF p = <<>> THEN <<>>
            ELSE IF p[Len(p)] = 0 THEN PTrim(SubSeq(p, 1, Len(p) - 1))
            ELSE p

PAdd(p, q) == PTrim([k \in 1..Max2(Len(p), Len(q)) |-> Coef(p, k) + Coef(q, k)])

PScale(c, p) == PTrim([k \in 1..Len(p) |-> c * p[k]])

PSub(p, q) == PAdd(p, PScale(-1, q))

RECURSIVE ConvSum(_, _, _, _)
ConvSum(p, q, k, j) ==
    IF j > Len(p) THEN 0
    ELSE p[j] * Coef(q, k + 1 - j) + ConvSum(p, q, k, j + 1)

PMul(p, q) == IF p = <<>> \/ q = <<>> THEN <<>>
              ELSE PTrim([k \in 1..(Len(p) + Len(q) - 1) |-> ConvSum(p, q, k, 1)])

\* number of leading zero coefficients (the power of eps dividing p), p # <<>>
RECURSIVE PLow(_)
PLow(p) == IF p = <<>> \/ p[1] # 0 THEN 0 ELSE 1 + PLow(Tail(p))

PSign(p) == IF p = <<>> THEN 0 ELSE Sgn(p[PLow(p) + 1])

RECURSIVE PContent(_)
PContent(p) == IF p = <<>> THEN 0 ELSE GCD(p[1], PContent(Tail(p)))

\* the quotient n/d in a reduced form: d positive, no common integer factor,
\* no common power of eps
Norm(x) ==
    IF x.n = <<>> THEN [n |-> <<>>, d |-> <<1>>]
    ELSE LET k  == Min2(PLow(x.n), PLow(x.d))
             n1 == SubSeq(x.n, k + 1, Len(x.n))
             d1 == SubSeq(x.d, k + 1, Len(x.d))
             g  == GCD(PContent(n1), PContent(d1)) * PSign(d1)
         IN  [n |-> [j \in 1..Len(n1) |-> n1[j] \div g],
              d |-> [j \in 1..Len(d1) |-> d1[j] \div g]]

Frac(a, b) == Norm([n |-> PTrim(<<a>>), d |-> <<b>>])

Num(a) == Frac(a, 1)

Add(x, y) == Norm([n |-> PAdd(PMul(x.n, y.d), PMul(y.n, x.d)), d |-> PMul(x.d, y.d)])

Sub(x, y) == Norm([n |-> PSub(PMul(x.n, y.d), PMul(y.n, x.d)), d |-> PMul(x.d, y.d)])

Mul(x, y) == Norm([n |-> PMul(x.n, y.n), d |-> PMul(x.d, y.d)])

Div(x, y) == Norm([n |-> PMul(x.n, y.d), d |-> PMul(x.d, y.n)])

Sign(x) == PSign(x.n) * PSign(x.d)

\* the sign of x - y
Cmp(x, y) == PSign(PSub(PMul(x.n, y.d), PMul(y.n, x.d))) * PSign(x.d) * PSign(y.d)

Lt(x, y) == Cmp(x, y) < 0

Gt(x, y) == Lt(y, x)

Le(x, y) == ~Lt(y, x)

Ge(x, y) == ~Lt(x, y)

Eq(x, y) == Cmp(x, y) = 0

AbsNum(x) == IF Sign(x) < 0 THEN Sub(Num(0), x) ELSE x

\* the literal 1e-10 of the source
Eps == [n |-> <<0, 1>>, d |-> <<1>>]

\* len() of a numpy array
Size(a) == Cardinality(DOMAIN a)

None == "None"

(***************************************************************************)
(* normalized_square_difference                                            *)
(***************************************************************************)
\* int(np.ceil(np.log2(2 * n))) raises OverflowError for n = 0
\* (log2(0) = -inf cannot be converted to an integer)
NsdfRaises(audio_buffer) == Size(audio_buffer) = 0

\* autocorr[tau]: rfft of the buffer zero-padded to fft_size >= 2n, times its
\* conjugate, inverse transformed and cut to n values, is the linear (not
\* circular) autocorrelation sum over j of x[j]*x[j+tau]
RECURSIVE AutocorrSum(_, _, _)
AutocorrSum(audio_buffer, tau, j) ==
    IF j + tau > Size(audio_buffer) - 1 THEN 0
    ELSE audio_buffer[j] * audio_buffer[j + tau]
         + AutocorrSum(audio_buffer, tau, j + 1)

autocorr(audio_buffer, tau) == AutocorrSum(audio_buffer, tau, 0)

\* np.concatenate(([0], np.cumsum(audio_buffer ** 2)))[k]
RECURSIVE cumsum_sq(_, _)
cumsum_sq(audio_buffer, k) ==
    IF k = 0 THEN 0
    ELSE cumsum_sq(audio_buffer, k - 1) + audio_buffer[k - 1] * audio_buffer[k - 1]

\* m[tau] with the second window's energy left out
m_first_window(audio_buffer, tau) ==
    LET raw == cumsum_sq(audio_buffer, Size(audio_buffer) - tau)
    IN  IF raw = 0 THEN Eps ELSE Num(raw)

\* m[tau] after the loop of lines 53-55 and the substitution m[m == 0] = 1e-10
m(audio_buffer, tau) ==
    LET n   == Size(audio_buffer)
        raw == cumsum_sq(audio_buffer, n - tau)
               + (cumsum_sq(audio_buffer, n) - cumsum_sq(audio_buffer, tau))
    IN  IF raw = 0 THEN Eps ELSE Num(raw)

normalized_square_difference(audio_buffer) ==
    [tau \in 0..(Size(audio_buffer) - 1) |->
        Div(Num(2 * autocorr(audio_buffer, tau)), m(audio_buffer, tau))]

(***************************************************************************)
(* peak_picking                                                            *)
(***************************************************************************)
\* the peak test with a local maximum that need not be strict
IsPeakNonStrict(nsdf, threshold, i) ==
    /\ Gt(nsdf[i], threshold) /\ Gt(nsdf[i], Num(0))
    /\ Ge(nsdf[i], nsdf[i - 1]) /\ Ge(nsdf[i], nsdf[i + 1])

IsPeak(nsdf, threshold, i) ==
    /\ Gt(nsdf[i], threshold) /\ Gt(nsdf[i], Num(0))
    /\ Gt(nsdf[i], nsdf[i - 1]) /\ Gt(nsdf[i], nsdf[i + 1])

\* the loop for i in range(1, len(nsdf) - 1), from index i on
RECURSIVE PeakLoop(_, _, _, _)
PeakLoop(nsdf, threshold, i, peaks) ==
    IF i >= Size(nsdf) - 1 THEN peaks
    ELSE PeakLoop(nsdf, threshold, i + 1,
                  IF IsPeak(nsdf, threshold, i)
                  THEN Append(peaks, <<i, nsdf[i]>>) ELSE peaks)

peak_picking(nsdf, threshold) == PeakLoop(nsdf, threshold, 1, <<>>)

(***************************************************************************)
(* parabolic_interpolation                                                 *)
(***************************************************************************)
\* the refinement with the degeneracy test written without abs()
parabolic_interpolation_no_abs(nsdf, peak_index) ==
    IF peak_index <= 0 \/ peak_index >= Size(nsdf) - 1 THEN Num(peak_index)
    ELSE LET alpha == nsdf[peak_index - 1]
             beta  == nsdf[peak_index]
             gamma == nsdf[peak_index + 1]
             denominator == Add(Sub(alpha, Mul(Num(2), beta)), gamma)
         IN  IF Lt(denominator, Eps) THEN Num(peak_index)
             ELSE Add(Num(peak_index),
                      Div(Mul(Frac(1, 2), Sub(alpha, gamma)), denominator))

\* the refinement with the factor 0.5 of the offset left out
parabolic_interpolation_no_half(nsdf, peak_index) ==
    IF peak_index <= 0 \/ peak_index >= Size(nsdf) - 1 THEN Num(peak_index)
    ELSE LET alpha == nsdf[peak_index - 1]
             beta  == nsdf[peak_index]
             gamma == nsdf[peak_index + 1]
             denominator == Add(Sub(alpha, Mul(Num(2), beta)), gamma)
         IN  IF Lt(AbsNum(denominator), Eps) THEN Num(peak_index)
             ELSE Add(Num(peak_index), Div(Sub(alpha, gamma), denominator))

parabolic_interpolation(nsdf, peak_index) ==
    IF peak_index <= 0 \/ peak_index >= Size(nsdf) - 1 THEN Num(peak_index)
    ELSE LET alpha == nsdf[peak_index - 1]
             beta  == nsdf[peak_index]
             gamma == nsdf[peak_index + 1]
             denominator == Add(Sub(alpha, Mul(Num(2), beta)), gamma)
         IN  IF Lt(AbsNum(denominator), Eps) THEN Num(peak_index)
             ELSE Add(Num(peak_index),
                      Div(Mul(Frac(1, 2), Sub(alpha, gamma)), denominator))

(***************************************************************************)
(* mpm_pitch_detection                                                     *)
(***************************************************************************)
strong_clarity_threshold == Frac(8, 10)

\* max(peaks, key=lambda p: p[1]): the first element whose key no later
\* element exceeds strictly; best is the maximum of peaks[1..k-1]
RECURSIVE MaxLoop(_, _, _)
MaxLoop(peaks, k, best) ==
    IF k > Len(peaks) THEN best
    ELSE MaxLoop(peaks, k + 1, IF Gt(peaks[k][2], best[2]) THEN peaks[k] ELSE best)

MaxByClarity(peaks) == MaxLoop(peaks, 2, peaks[1])

\* Step 3 as a plain argmax, without the strong first peak rule
SelectBestPeakArgmax(peaks) == MaxByClarity(peaks)

\* Step 3, for a non-empty list
SelectBestPeak(peaks) ==
    IF Ge(peaks[1][2], strong_clarity_threshold) THEN peaks[1]
    ELSE MaxByClarity(peaks)

NoEstimate == [kind |-> "none", frequency |-> None, clarity |-> None]

Raised(exc) == [kind |-> exc, frequency |-> None, clarity |-> None]

Estimate(frequency, clarity) ==
    [kind |-> "estimate", frequency |-> frequency, clarity |-> clarity]

\* Step 5
LagToFrequency(sample_rate, refined_lag, clarity) ==
    IF Gt(refined_lag, Num(0))
    THEN Estimate(Div(Num(sample_rate), refined_lag), clarity)
    ELSE NoEstimate

\* lines 172-202, from the NSDF on
DetectFromNsdf(nsdf, sample_rate, threshold) ==
    LET peaks == peak_picking(nsdf, threshold)
    IN  IF peaks = <<>> THEN NoEstimate
        ELSE LET best_peak == SelectBestPeak(peaks)
             IN  LagToFrequency(sample_rate,
                                parabolic_interpolation(nsdf, best_peak[1]),
                                best_peak[2])

mpm_pitch_detection(audio_buffer, sample_rate, threshold) ==
    IF NsdfRaises(audio_buffer) THEN Raised("OverflowError")
    ELSE DetectFromNsdf(normalized_square_difference(audio_buffer),
                        sample_rate, threshold)

(***************************************************************************)
(* detect_pitch_mpm                                                        *)
(***************************************************************************)
\* np.nan
NaN == [n |-> <<>>, d |-> <<>>]

\* Python's a // b for b # 0: the floor of the quotient
FloorDiv(a, b) == IF b > 0 THEN a \div b ELSE (-a) \div (-b)

\* a bound of a slice: negative counts from the end, then clipped to 0..n
SliceBound(k, n) == IF k < 0 THEN Max2(k + n, 0) ELSE Min2(k, n)

\* a[start:end]
Slice(a, start, end) ==
    LET s == SliceBound(start, Size(a))
        e == SliceBound(end, Size(a))
    IN  [j \in 0..(e - s - 1) |-> a[s + j]]

\* the range filter with the bounds excluded
InRangeExclusive(freq, lo, hi) == Lt(Num(lo), freq) /\ Lt(freq, Num(hi))

\* fmin <= freq <= fmax
InRange(freq, lo, hi) == Le(Num(lo), freq) /\ Le(freq, Num(hi))

(***************************************************************************)
(* get_dominant_pitch_mpm                                                  *)
(***************************************************************************)
\* a comparison with NaN is False
GeNaN(x, y) == x # NaN /\ y # NaN /\ Ge(x, y)

\* the mask with clarity compared strictly
ValidMaskStrict(pitches, clarities, clarities_given, min_clarity) ==
    [k \in DOMAIN pitches |->
        /\ pitches[k] # NaN
        /\ clarities_given =>
              (clarities[k] # NaN /\ min_clarity # NaN /\ Gt(clarities[k], min_clarity))]

\* lines 288-292
ValidMask(pitches, clarities, clarities_given, min_clarity) ==
    [k \in DOMAIN pitches |->
        /\ pitches[k] # NaN
        /\ clarities_given =>
              (GeNaN(clarities[k], min_clarity) /\ clarities[k] # NaN)]

\* a[mask] as a list, from index k on
RECURSIVE MaskedFrom(_, _, _)
MaskedFrom(a, mask, k) ==
    IF k >= Size(a) THEN <<>>
    ELSE IF mask[k] THEN <<a[k]>> \o MaskedFrom(a, mask, k + 1)
    ELSE MaskedFrom(a, mask, k + 1)

\* a[mask]
Masked(a, mask) ==
    LET s == MaskedFrom(a, mask, 0) IN [k \in 0..(Len(s) - 1) |-> s[k + 1]]

IndexPermutations(n) ==
    {f \in [0..(n - 1) -> 0..(n - 1)] : \A j, k \in 0..(n - 1) : j # k => f[j] # f[k]}

\* the results np.argsort(a) can have: every permutation that sorts a (the
\* order of equal elements is not specified for the default sort)
Argsorts(a) ==
    {f \in IndexPermutations(Size(a)) :
        \A k \in 0..(Size(a) - 2) : Le(a[f[k]], a[f[k + 1]])}

\* a[idx]
Take(a, idx) == [k \in DOMAIN idx |-> a[idx[k]]]

\* np.cumsum(a)[k]
RECURSIVE CumSumAt(_, _)
CumSumAt(a, k) == IF k = 0 THEN a[0] ELSE Add(CumSumAt(a, k - 1), a[k])

CumSum(a) == [k \in DOMAIN a |-> CumSumAt(a, k)]

\* the binary search with side='right'
RECURSIVE BisectRight(_, _, _, _)
BisectRight(a, v, lo, hi) ==
    IF lo >= hi THEN lo
    ELSE LET mid == lo + ((hi - lo) \div 2)
         IN  IF Le(a[mid], v) THEN BisectRight(a, v, mid + 1, hi)
             ELSE BisectRight(a, v, lo, mid)

\* np.searchsorted(a, v): the binary search with side='left'
RECURSIVE BisectLeft(_, _, _, _)
BisectLeft(a, v, lo, hi) ==
    IF lo >= hi THEN lo
    ELSE LET mid == lo + ((hi - lo) \div 2)
         IN  IF Lt(a[mid], v) THEN BisectLeft(a, v, mid + 1, hi)
             ELSE BisectLeft(a, v, lo, mid)

searchsorted_right(a, v) == BisectRight(a, v, 0, Size(a))

searchsorted(a, v) == BisectLeft(a, v, 0, Size(a))

\* np.median(a) for a non-empty array
Median(a) ==
    LET f  == CHOOSE g \in Argsorts(a) : TRUE
        sz == Size(a)
    IN  IF sz % 2 = 1 THEN a[f[(sz - 1) \div 2]]
        ELSE Div(Add(a[f[(sz \div 2) - 1]], a[f[sz \div 2]]), Num(2))

ReturnedNone == [kind |-> "None", value |-> NaN]

ReturnedFloat(x) == [kind |-> "float", value |-> x]

(***************************************************************************)
(* State                                                                   *)
(***************************************************************************)
VARIABLES
    pc,            \* the place of the running call
    audio_buffer,  \* mpm_pitch_detection: parameters and locals
    sample_rate,   \* (also a parameter of detect_pitch_mpm)
    threshold,     \* (also a parameter of detect_pitch_mpm)
    nsdf,
    peaks,
    best_peak,
    peak_index,
    refined_lag,
    result,
    audio,         \* detect_pitch_mpm: parameters and locals
    frame_length,
    hop_length,
    fmin,
    fmax,
    num_frames,
    pitches,       \* (also a parameter of get_dominant_pitch_mpm)
    clarities,     \* (also a parameter of get_dominant_pitch_mpm)
    times,
    i,
    raised,        \* the exception that ended the call, or "none"
    min_clarity,   \* get_dominant_pitch_mpm: parameters and locals
    clarities_given,  \* clarities is not None
    valid_mask,
    sort_idx,
    cumsum,
    median_idx,
    dominant_pitch

frameVars == <<audio_buffer, nsdf, peaks, best_peak, peak_index, refined_lag, result>>

trackVars == <<audio, frame_length, hop_length, fmin, fmax, num_frames, times, i>>

seriesVars == <<pitches, clarities>>

aggVars == <<min_clarity, clarities_given, valid_mask, sort_idx, cumsum, median_idx, dominant_pitch>>

vars == <<pc, sample_rate, threshold, raised, frameVars, trackVars, seriesVars, aggVars>>

\* the variables of the calls that are not running
FrameIdle ==
    /\ audio_buffer = None /\ nsdf = <<>> /\ peaks = <<>> /\ best_peak = None
    /\ peak_index = None /\ refined_lag = None /\ result = None

TrackIdle ==
    /\ audio = None /\ frame_length = None /\ hop_length = None
    /\ fmin = None /\ fmax = None /\ num_frames = None
    /\ times = <<>> /\ i = None

AggIdle ==
    /\ min_clarity = None /\ clarities_given = None
    /\ valid_mask = <<>> /\ sort_idx = <<>>
    /\ cumsum = <<>> /\ median_idx = None /\ dominant_pitch = None

(***************************************************************************)
(* Bounds and inputs                                                       *)
(***************************************************************************)
MaxFrame == 5

Samples == {-1, 0, 1, 2}

Arrays(n, S) == [0..(n - 1) -> S]

\* (sample_rate, threshold): valid pairs, then one parameter invalid at a time
DetectorParams ==
    {<<8, Frac(1, 10)>>, <<8, Frac(1, 2)>>, <<3, Frac(1, 10)>>,
     <<0, Frac(1, 10)>>, <<-8, Frac(1, 10)>>,
     <<8, Num(0)>>, <<8, Num(1)>>, <<8, Frac(3, 2)>>, <<8, Frac(-1, 10)>>}

(***************************************************************************)
(* mpm_pitch_detection, statement by statement                             *)
(***************************************************************************)
InitFrame ==
    /\ pc = "nsdf"
    /\ \E n \in 0..MaxFrame : audio_buffer \in Arrays(n, Samples)
    /\ \E p \in DetectorParams : sample_rate = p[1] /\ threshold = p[2]
    /\ nsdf = <<>> /\ peaks = <<>> /\ best_peak = None
    /\ peak_index = None /\ refined_lag = None /\ result = None
    /\ raised = "none" /\ pitches = <<>> /\ clarities = <<>>
    /\ TrackIdle /\ AggIdle

\* line 169
ComputeNsdf ==
    /\ pc = "nsdf"
    /\ IF NsdfRaises(audio_buffer)
       THEN /\ pc' = "raised"
            /\ result' = Raised("OverflowError")
            /\ UNCHANGED nsdf
       ELSE /\ pc' = "peaks"
            /\ nsdf' = normalized_square_difference(audio_buffer)
            /\ UNCHANGED result
    /\ UNCHANGED <<audio_buffer, sample_rate, threshold, peaks, best_peak,
                   peak_index, refined_lag>>
    /\ UNCHANGED <<raised, trackVars, seriesVars, aggVars>>

\* lines 172-175
PickPeaks ==
    /\ pc = "peaks"
    /\ peaks' = peak_picking(nsdf, threshold)
    /\ IF peaks' = <<>>
       THEN pc' = "returned" /\ result' = NoEstimate
       ELSE pc' = "select" /\ UNCHANGED result
    /\ UNCHANGED <<audio_buffer, sample_rate, threshold, nsdf, best_peak,
                   peak_index, refined_lag>>
    /\ UNCHANGED <<raised, trackVars, seriesVars, aggVars>>

\* lines 180-190
SelectPeak ==
    /\ pc = "select"
    /\ best_peak' = SelectBestPeak(peaks)
    /\ peak_index' = best_peak'[1]
    /\ pc' = "refine"
    /\ UNCHANGED <<audio_buffer, sample_rate, threshold, nsdf, peaks,
                   refined_lag, result>>
    /\ UNCHANGED <<raised, trackVars, seriesVars, aggVars>>

\* line 193
RefineLag ==
    /\ pc = "refine"
    /\ refined_lag' = parabolic_interpolation(nsdf, peak_index)
    /\ pc' = "convert"
    /\ UNCHANGED <<audio_buffer, sample_rate, threshold, nsdf, peaks,
                   best_peak, peak_index, result>>
    /\ UNCHANGED <<raised, trackVars, seriesVars, aggVars>>

\* lines 197-202
ConvertLag ==
    /\ pc = "convert"
    /\ result' = LagToFrequency(sample_rate, refined_lag, best_peak[2])
    /\ pc' = "returned"
    /\ UNCHANGED <<audio_buffer, sample_rate, threshold, nsdf, peaks,
                   best_peak, peak_index, refined_lag>>
    /\ UNCHANGED <<raised, trackVars, seriesVars, aggVars>>

NextFrame == ComputeNsdf \/ PickPeaks \/ SelectPeak \/ RefineLag \/ ConvertLag

SpecFrame == InitFrame /\ [][NextFrame]_vars

(***************************************************************************)
(* mpm_pitch_detection from line 172 on, for NSDF arrays of any content,   *)
(* and parabolic_interpolation called on its own                           *)
(***************************************************************************)
MaxNsdf == 5

MaxInterp == 3

NsdfValues ==
    {Frac(-1, 2), Frac(1, 2), Add(Frac(1, 2), Mul(Frac(1, 4), Eps)),
     Frac(8, 10), Frac(9, 10)}

NsdfThresholds == {Frac(1, 10), Frac(1, 2)}

InterpValues ==
    {Frac(-1, 2), Num(0), Mul(Frac(1, 2), Eps), Mul(Num(3), Eps),
     Frac(1, 2), Add(Frac(1, 2), Mul(Frac(1, 4), Eps)), Num(1)}

InitNsdf ==
    /\ audio_buffer = None
    /\ sample_rate = 8
    /\ peaks = <<>> /\ best_peak = None /\ refined_lag = None /\ result = None
    /\ raised = "none" /\ pitches = <<>> /\ clarities = <<>>
    /\ TrackIdle /\ AggIdle
    /\ \/ /\ pc = "peaks"
          /\ \E n \in 1..MaxNsdf : nsdf \in Arrays(n, NsdfValues)
          /\ threshold \in NsdfThresholds
          /\ peak_index = None
       \/ /\ pc = "call_interp"
          /\ \E n \in 1..MaxInterp :
                /\ nsdf \in Arrays(n, InterpValues)
                /\ peak_index \in -1..n
          /\ threshold = None

\* parabolic_interpolation(nsdf, peak_index), lines 119-136
InterpolateCall ==
    /\ pc = "call_interp"
    /\ refined_lag' = parabolic_interpolation(nsdf, peak_index)
    /\ pc' = "interp_returned"
    /\ UNCHANGED <<audio_buffer, sample_rate, threshold, nsdf, peaks,
                   best_peak, peak_index, result>>
    /\ UNCHANGED <<raised, trackVars, seriesVars, aggVars>>

NextNsdf == PickPeaks \/ SelectPeak \/ RefineLag \/ ConvertLag \/ InterpolateCall

SpecNsdf == InitNsdf /\ [][NextNsdf]_vars

(***************************************************************************)
(* Properties of the NSDF stages (SpecNsdf)                                *)
(***************************************************************************)
PeaksComputed == pc \in {"select", "refine", "convert", "returned"}

BestPeakChosen == pc \in {"refine", "convert"} \/ (pc = "returned" /\ peaks # <<>>)

RefinedInCall == pc = "convert" \/ (pc = "returned" /\ peaks # <<>>)

Qualifies(lag) ==
    /\ Cmp(nsdf[lag], threshold) > 0
    /\ Sign(nsdf[lag]) > 0
    /\ Cmp(nsdf[lag], nsdf[lag - 1]) > 0
    /\ Cmp(nsdf[lag], nsdf[lag + 1]) > 0

\* C3: peak_picking returns, in strictly increasing lag order, exactly the
\* indices i in [1, n-2] with nsdf[i] > threshold, nsdf[i] > 0 and nsdf[i]
\* strictly above both neighbours, each paired with nsdf[i]; lag 0 and index
\* n-1 never appear, and the list is empty when no index qualifies.
PeakPickingExact ==
    PeaksComputed =>
        LET n == Size(nsdf)
        IN  /\ \A k \in 1..Len(peaks) :
                  /\ peaks[k][1] \in 1..(n - 2)
                  /\ peaks[k][1] # 0 /\ peaks[k][1] # n - 1
                  /\ Qualifies(peaks[k][1])
                  /\ peaks[k][2] = nsdf[peaks[k][1]]
            /\ \A k \in 1..(Len(peaks) - 1) : peaks[k][1] < peaks[k + 1][1]
            /\ \A lag \in 1..(n - 2) :
                  Qualifies(lag) => \E k \in 1..Len(peaks) : peaks[k][1] = lag
            /\ (\A lag \in 1..(n - 2) : ~Qualifies(lag)) => peaks = <<>>

\* a 5-point array with one peak kept (index 3) and a strict local maximum at
\* index 1 dropped because it only equals the threshold
PeakPickingWitness ==
    /\ PeaksComputed /\ Size(nsdf) = 5
    /\ Len(peaks) = 1 /\ peaks[1][1] = 3
    /\ Eq(nsdf[1], threshold)
    /\ Gt(nsdf[1], nsdf[0]) /\ Gt(nsdf[1], nsdf[2])

SelectionTieWitness ==
    /\ BestPeakChosen
    /\ Len(peaks) = 2 /\ Eq(peaks[1][2], peaks[2][2])
    /\ Lt(peaks[1][2], Frac(4, 5))
    /\ best_peak = peaks[1]

InterpDone == pc = "interp_returned" \/ RefinedInCall

Curvature(lag) == Sub(Add(nsdf[lag - 1], nsdf[lag + 1]), Add(nsdf[lag], nsdf[lag]))

Degenerate(lag) ==
    Lt(Curvature(lag), Eps) /\ Gt(Curvature(lag), Sub(Num(0), Eps))

\* C8: parabolic_interpolation(nsdf, i) returns i when i <= 0 or i >= n-1 or
\* |nsdf[i-1] - 2 nsdf[i] + nsdf[i+1]| < 1e-10, and otherwise the value r
\* with 2 (r - i) (nsdf[i-1] - 2 nsdf[i] + nsdf[i+1]) = nsdf[i-1] - nsdf[i+1].
InterpolationRule ==
    InterpDone =>
        IF peak_index <= 0 \/ peak_index >= Size(nsdf) - 1
        THEN Eq(refined_lag, Num(peak_index))
        ELSE IF Degenerate(peak_index)
        THEN Eq(refined_lag, Num(peak_index))
        ELSE Eq(Mul(Mul(Num(2), Curvature(peak_index)),
                    Sub(refined_lag, Num(peak_index))),
                Sub(nsdf[peak_index - 1], nsdf[peak_index + 1]))

\* an interior index whose parabola is degenerate without being flat
InterpolationWitness ==
    /\ pc = "interp_returned"
    /\ peak_index > 0 /\ peak_index < Size(nsdf) - 1
    /\ Degenerate(peak_index) /\ Sign(Curvature(peak_index)) # 0
    /\ ~Eq(nsdf[peak_index - 1], nsdf[peak_index + 1])

\* C10: for the index of a selected peak the refined lag lies strictly
\* between i - 0.5 and i + 0.5, hence is positive, and the call returns
\* 'no estimate' if and only if the peak list is empty.
RefinedLagNearPeak ==
    /\ RefinedInCall =>
          /\ Gt(refined_lag, Sub(Num(peak_index), Frac(1, 2)))
          /\ Lt(refined_lag, Add(Num(peak_index), Frac(1, 2)))
          /\ Gt(refined_lag, Num(0))
    /\ pc = "returned" => (result.kind = "none" <=> peaks = <<>>)

\* a peak at lag 1 refined to a lag below 1, and an estimate returned
RefinedLagWitness ==
    /\ pc = "returned" /\ peaks # <<>>
    /\ peak_index = 1 /\ Lt(refined_lag, Num(1))
    /\ result.kind = "estimate"

(***************************************************************************)
(* Properties of mpm_pitch_detection on frames (SpecFrame)                 *)
(***************************************************************************)
RECURSIVE SumSeq(_)
SumSeq(s) == IF s = <<>> THEN 0 ELSE Head(s) + SumSeq(Tail(s))

\* r(tau): sum over j = 0..n-1-tau of x[j] x[j+tau]
AutocorrelationAt(tau) ==
    SumSeq([j \in 1..(Size(audio_buffer) - tau) |->
               audio_buffer[j - 1] * audio_buffer[j - 1 + tau]])

\* sum of the squares of the first n-tau samples plus that of the last n-tau
TwoWindowEnergy(tau) ==
    LET n == Size(audio_buffer)
        e == SumSeq([j \in 1..(n - tau) |-> audio_buffer[j - 1] * audio_buffer[j - 1]])
             + SumSeq([j \in 1..(n - tau) |->
                          audio_buffer[tau + j - 1] * audio_buffer[tau + j - 1]])
    IN  IF e = 0 THEN Eps ELSE Num(e)

ValidDetectorInput ==
    /\ Size(audio_buffer) >= 3
    /\ sample_rate > 0
    /\ Sign(threshold) > 0 /\ Lt(threshold, Num(1))

StepwiseAgreesWithCall ==
    pc \in {"returned", "raised"} =>
        result = mpm_pitch_detection(audio_buffer, sample_rate, threshold)

\* C2: a call of mpm_pitch_detection with an invalid frame length, sample
\* rate or threshold ends in an error, never in an estimate or 'no estimate'.
InvalidDetectorInputRaises ==
    (pc \in {"returned", "raised"} /\ ~ValidDetectorInput) =>
        result.kind \notin {"estimate", "none"}

(***************************************************************************)
(* detect_pitch_mpm, one loop iteration at a time                          *)
(***************************************************************************)
MaxAudio == 5

TrackSamples == {-1, 0, 1}

FrameLengths == {-1, 0, 3, 4}

HopLengths == {-1, 0, 1, 2}

FrequencyRanges == {<<1, 100>>, <<3, 4>>}

InitTrack ==
    /\ pc = "track"
    /\ \E n \in 0..MaxAudio : audio \in Arrays(n, TrackSamples)
    /\ sample_rate = 8
    /\ frame_length \in FrameLengths
    /\ hop_length \in HopLengths
    /\ threshold = Frac(1, 10)
    /\ \E r \in FrequencyRanges : fmin = r[1] /\ fmax = r[2]
    /\ num_frames = None /\ pitches = <<>> /\ clarities = <<>> /\ times = <<>>
    /\ i = None /\ raised = "none"
    /\ FrameIdle /\ AggIdle

\* lines 240-244: num_frames and the three arrays.  The floor division raises
\* ZeroDivisionError for hop_length = 0, np.full raises ValueError for a
\* negative length
TrackAllocate ==
    /\ pc = "track"
    /\ IF hop_length = 0
       THEN /\ pc' = "raised" /\ raised' = "ZeroDivisionError"
            /\ UNCHANGED <<num_frames, pitches, clarities, times, i>>
       ELSE /\ num_frames' = 1 + FloorDiv(Size(audio) - frame_length, hop_length)
            /\ IF num_frames' < 0
               THEN /\ pc' = "raised" /\ raised' = "ValueError"
                    /\ UNCHANGED <<pitches, clarities, times, i>>
               ELSE /\ pitches' = [k \in 0..(num_frames' - 1) |-> NaN]
                    /\ clarities' = [k \in 0..(num_frames' - 1) |-> NaN]
                    /\ times' = [k \in 0..(num_frames' - 1) |-> Num(0)]
                    /\ i' = 0
                    /\ pc' = "loop"
                    /\ UNCHANGED raised
    /\ UNCHANGED <<audio, frame_length, hop_length, fmin, fmax, sample_rate,
                   threshold, frameVars, aggVars>>

\* lines 246-262: the loop body for frame i
TrackFrame ==
    /\ pc = "loop" /\ i < num_frames
    /\ LET start == i * hop_length
           end   == start + frame_length
           frame == Slice(audio, start, end)
           est   == mpm_pitch_detection(frame, sample_rate, threshold)
       IN  /\ times' = [times EXCEPT ![i] = Frac(start, sample_rate)]
           /\ IF est.kind \notin {"estimate", "none"}
              THEN /\ pc' = "raised" /\ raised' = est.kind
                   /\ UNCHANGED <<pitches, clarities, i>>
              ELSE /\ IF est.kind = "estimate" /\ InRange(est.frequency, fmin, fmax)
                      THEN /\ pitches' = [pitches EXCEPT ![i] = est.frequency]
                           /\ clarities' = [clarities EXCEPT ![i] = est.clarity]
                      ELSE UNCHANGED <<pitches, clarities>>
                   /\ i' = i + 1
                   /\ UNCHANGED <<pc, raised>>
    /\ UNCHANGED <<audio, frame_length, hop_length, fmin, fmax, num_frames,
                   sample_rate, threshold, frameVars, aggVars>>

\* line 264
TrackReturn ==
    /\ pc = "loop" /\ i = num_frames
    /\ pc' = "returned"
    /\ UNCHANGED <<sample_rate, threshold, raised, frameVars, trackVars,
                   seriesVars, aggVars>>

NextTrack == TrackAllocate \/ TrackFrame \/ TrackReturn

SpecTrack == InitTrack /\ [][NextTrack]_vars

(***************************************************************************)
(* Properties of detect_pitch_mpm (SpecTrack)                              *)
(***************************************************************************)
ValidTrackerInput == frame_length > 0 /\ hop_length > 0

TrackEnded == pc \in {"returned", "raised"}

\* 1 + floor((len - L) / H), and 0 when len < L
ExpectedFrames ==
    IF Size(audio) < frame_length THEN 0
    ELSE 1 + ((Size(audio) - frame_length) \div hop_length)

\* C1: for L > 0 and H > 0 the call returns three sequences of
\* 1 + floor((len - L) / H) entries, and an empty series, without an error,
\* whenever len < L.
FrameCountExact ==
    (ValidTrackerInput /\ TrackEnded) =>
        /\ pc = "returned"
        /\ Size(pitches) = ExpectedFrames
        /\ Size(clarities) = ExpectedFrames
        /\ Size(times) = ExpectedFrames

\* the part of C1 the code keeps: the count is right, and the series empty
\* for L - H <= len < L, whenever 1 + floor((len - L) / H) is not negative
FrameCountWhenNotNegative ==
    (ValidTrackerInput /\ TrackEnded /\ Size(audio) >= frame_length - hop_length) =>
        /\ pc = "returned"
        /\ Size(pitches) = ExpectedFrames
        /\ Size(clarities) = ExpectedFrames
        /\ Size(times) = ExpectedFrames

\* the tracker's half of the fail-fast rule: a call with frame_length <= 0 or
\* hop_length <= 0 ends in an error (it does not: such calls can return)
InvalidTrackerInputRaises ==
    (TrackEnded /\ ~ValidTrackerInput) => pc = "raised"

\* the frame detector's result for samples [k*H, k*H + L)
FrameEstimate(k) ==
    mpm_pitch_detection([j \in 0..(frame_length - 1) |-> audio[k * hop_length + j]],
                        sample_rate, threshold)

Accepted(est) ==
    /\ est.kind = "estimate"
    /\ Sign(Sub(est.frequency, Num(fmin))) >= 0
    /\ Sign(Sub(Num(fmax), est.frequency)) >= 0

\* C6: the three sequences stay index-aligned: for every frame k done,
\* times[k] = k*H / sample_rate, and pitches[k], clarities[k] hold the frame
\* detector's frequency and clarity for samples [k*H, k*H+L) when a
\* frequency is produced within [fmin, fmax] (bounds included) and are both
\* missing otherwise; pitches[k] is missing iff clarities[k] is.
SeriesAligned ==
    (ValidTrackerInput /\ pc \in {"loop", "returned"}) =>
        /\ Size(pitches) = num_frames
        /\ Size(clarities) = num_frames
        /\ Size(times) = num_frames
        /\ \A k \in 0..(i - 1) :
              /\ Eq(Mul(times[k], Num(sample_rate)), Num(k * hop_length))
              /\ IF Accepted(FrameEstimate(k))
                 THEN /\ pitches[k] = FrameEstimate(k).frequency
                      /\ clarities[k] = FrameEstimate(k).clarity
                 ELSE pitches[k] = NaN /\ clarities[k] = NaN
        /\ \A k \in 0..(num_frames - 1) : pitches[k] = NaN <=> clarities[k] = NaN

\* a returned series with a frequency kept on the bound of the range, and a
\* frame whose frequency was produced but is out of range, hence missing
SeriesWitness ==
    /\ ValidTrackerInput /\ pc = "returned" /\ num_frames >= 2
    /\ \E k \in 0..(num_frames - 1) :
          /\ pitches[k] # NaN
          /\ Eq(pitches[k], Num(fmin)) \/ Eq(pitches[k], Num(fmax))
          /\ times[k] # Num(0)
    /\ \E k \in 0..(num_frames - 1) :
          pitches[k] = NaN /\ FrameEstimate(k).kind = "estimate"

(***************************************************************************)
(* get_dominant_pitch_mpm                                                  *)
(***************************************************************************)
MaxSeries == 3

\* (pitch, clarity) of one frame; clarities are not negative
SeriesEntries ==
    {<<NaN, NaN>>, <<Num(4), NaN>>,
     <<Num(2), Frac(1, 2)>>, <<Num(2), Num(1)>>,
     <<Num(4), Frac(3, 10)>>, <<Num(4), Frac(1, 2)>>,
     <<Num(5), Num(1)>>, <<Num(5), Num(0)>>}

MinClarities == {Num(0), Frac(1, 2)}

InitAgg ==
    /\ pc = "aggregate"
    /\ \E n \in 0..MaxSeries : \E series \in Arrays(n, SeriesEntries) :
          /\ pitches = [k \in 0..(n - 1) |-> series[k][1]]
          /\ \/ /\ clarities_given = TRUE
                /\ clarities = [k \in 0..(n - 1) |-> series[k][2]]
                /\ min_clarity \in MinClarities
             \/ /\ clarities_given = FALSE
                /\ clarities = <<>>
                /\ min_clarity = Frac(1, 2)
    /\ valid_mask = <<>> /\ sort_idx = <<>> /\ cumsum = <<>>
    /\ median_idx = None /\ dominant_pitch = None
    /\ sample_rate = None /\ threshold = None /\ raised = "none"
    /\ FrameIdle /\ TrackIdle

valid_pitches == Masked(pitches, valid_mask)

valid_clarities == Masked(clarities, valid_mask)

\* lines 288-297
AggregateMask ==
    /\ pc = "aggregate"
    /\ valid_mask' = ValidMask(pitches, clarities, clarities_given, min_clarity)
    /\ IF Size(Masked(pitches, valid_mask')) = 0
       THEN pc' = "returned" /\ dominant_pitch' = ReturnedNone
       ELSE /\ pc' = IF clarities_given THEN "weighted" ELSE "median"
            /\ UNCHANGED dominant_pitch
    /\ UNCHANGED <<min_clarity, clarities_given, sort_idx, cumsum, median_idx>>
    /\ UNCHANGED <<sample_rate, threshold, raised, frameVars, trackVars, seriesVars>>

\* lines 302-309; indexing past the end raises IndexError
AggregateWeightedMedian ==
    /\ pc = "weighted"
    /\ sort_idx' \in Argsorts(valid_pitches)
    /\ cumsum' = CumSum(Take(valid_clarities, sort_idx'))
    /\ median_idx' = searchsorted(cumsum',
                                  Div(cumsum'[Size(cumsum') - 1], Num(2)))
    /\ IF median_idx' >= Size(valid_pitches)
       THEN pc' = "raised" /\ raised' = "IndexError" /\ UNCHANGED dominant_pitch
       ELSE /\ dominant_pitch' =
                  ReturnedFloat(Take(valid_pitches, sort_idx')[median_idx'])
            /\ pc' = "returned" /\ UNCHANGED raised
    /\ UNCHANGED <<min_clarity, clarities_given, valid_mask>>
    /\ UNCHANGED <<sample_rate, threshold, frameVars, trackVars, seriesVars>>

\* line 311
AggregateMedian ==
    /\ pc = "median"
    /\ dominant_pitch' = ReturnedFloat(Median(valid_pitches))
    /\ pc' = "returned"
    /\ UNCHANGED <<min_clarity, clarities_given, valid_mask, sort_idx, cumsum,
                   median_idx>>
    /\ UNCHANGED <<sample_rate, threshold, raised, frameVars, trackVars, seriesVars>>

NextAgg == AggregateMask \/ AggregateWeightedMedian \/ AggregateMedian

SpecAgg == InitAgg /\ [][NextAgg]_vars

(***************************************************************************)
(* Properties of get_dominant_pitch_mpm (SpecAgg)                          *)
(***************************************************************************)
\* the frames with a frequency, a clarity, and clarity >= min_clarity
ValidFrames ==
    {k \in DOMAIN pitches :
        /\ pitches[k] # NaN /\ clarities[k] # NaN
        /\ Sign(Sub(clarities[k], min_clarity)) >= 0}

AggEnded == pc \in {"returned", "raised"}

\* C4: with clarities supplied the call returns None when no frame is valid
\* (all missing, or all below min_clarity), and otherwise returns, without an
\* error, exactly one of the frequencies of the valid frames.
DominantIsValidFrequency ==
    (AggEnded /\ clarities_given = TRUE) =>
        /\ pc = "returned"
        /\ IF ValidFrames = {} THEN dominant_pitch.kind = "None"
           ELSE /\ dominant_pitch.kind = "float"
                /\ \E k \in ValidFrames : dominant_pitch.value = pitches[k]

\* two valid frames of different frequencies and a frame below min_clarity
DominantWitness ==
    /\ pc = "returned" /\ clarities_given = TRUE
    /\ Cardinality(ValidFrames) = 2
    /\ \E k \in DOMAIN pitches :
          pitches[k] # NaN /\ clarities[k] # NaN /\ Lt(clarities[k], min_clarity)
    /\ \E j, k \in ValidFrames : pitches[j] # pitches[k]
    /\ dominant_pitch.kind = "float"

\* all frames missing or below min_clarity
UndeterminedWitness ==
    /\ pc = "returned" /\ clarities_given = TRUE
    /\ Size(pitches) = MaxSeries /\ ValidFrames = {}
    /\ \E k \in DOMAIN pitches : pitches[k] # NaN /\ clarities[k] # NaN
    /\ dominant_pitch.kind = "None"

WeightedDone == pc = "returned" /\ clarities_given = TRUE /\ ValidFrames # {}

\* C9: the valid (frequency, clarity) pairs are sorted by frequency
\* ascending, and the frequency returned is the one at the least index whose
\* cumulative clarity is >= half the total; that index exists (it is within
\* the valid subset).
WeightedMedianRule ==
    (clarities_given = TRUE /\ AggEnded /\ ValidFrames # {}) =>
        LET sz == Cardinality(ValidFrames)
            sorted_pitches == [k \in 0..(sz - 1) |-> valid_pitches[sort_idx[k]]]
            sorted_weights == [k \in 0..(sz - 1) |-> valid_clarities[sort_idx[k]]]
            total == cumsum[sz - 1]
        IN  /\ pc = "returned"
            /\ sort_idx \in IndexPermutations(sz)
            /\ \A k \in 0..(sz - 2) : ~Gt(sorted_pitches[k], sorted_pitches[k + 1])
            /\ Eq(cumsum[0], sorted_weights[0])
            /\ \A k \in 1..(sz - 1) :
                  Eq(Sub(cumsum[k], cumsum[k - 1]), sorted_weights[k])
            /\ median_idx \in 0..(sz - 1)
            /\ Ge(Mul(Num(2), cumsum[median_idx]), total)
            /\ \A k \in 0..(median_idx - 1) : Lt(Mul(Num(2), cumsum[k]), total)
            /\ dominant_pitch.value = sorted_pitches[median_idx]

\* the cumulative clarity reaches exactly half the total at an index that is
\* not the last, and the frequency there (the lower median) is returned
WeightedMedianWitness ==
    /\ WeightedDone /\ Cardinality(ValidFrames) = 3
    /\ median_idx = 1
    /\ Eq(Mul(Num(2), cumsum[median_idx]), cumsum[2])
    /\ Lt(dominant_pitch.value, valid_pitches[sort_idx[2]])
====
